---- MODULE Spec2Model ----
(***************************************************************************)
(* Model of the QEMU VM reconcilers of the homelab collection:             *)
(*   plugins/modules/qemu_vm.py  (QemuVM.ensure_state, specification Spec) *)
(*   plugins/modules/qemu.py     (QemuVM.ensure_state, specification       *)
(*                                SpecQemu)                                *)
(* The host (process table, image files, provisioning files) is shared     *)
(* state; every external command or file-system call of a reconciliation   *)
(* is one step, and the host may change between two steps.                 *)
(***************************************************************************)
EXTENDS Integers, Sequences, FiniteSets, TLC

VARIABLES
    procs,      \* hypervisor processes alive on the host
    image,      \* image[n]: the image file of VM n exists
    nextPid,    \* next PID the host hands out
    faults,     \* the host may fail to spawn tools and kill processes at will
    files,      \* provisioning files on the host (qemu.py)
    ctl         \* ctl[c]: the reconciliation run by caller c

vars == <<procs, image, nextPid, faults, files, ctl>>

(***************************************************************************)
(* Bounds of the model.                                                    *)
(***************************************************************************)
MaxPid == 5          \* PIDs 1..3 are taken at start, launches get 4..MaxPid
MaxCalls == 2        \* consecutive reconciliations of one caller

(***************************************************************************)
(* Strings are sequences of characters, so that Python's substring test    *)
(* and str.split are computed, not assumed.                                *)
(***************************************************************************)
SP == <<" ">>
NameVm == <<"v", "m">>
NameVm1 == <<"v", "m", "-", "1">>
NameDb == <<"d", "b">>
Names == {NameVm, NameVm1, NameDb}
TargetNames == {NameVm, NameVm1}

StrQemu == <<"q", "e", "m", "u">>
Binary == StrQemu \o <<"-", "s", "y", "s", "t", "e", "m", "-", "x", "8", "6", "_", "6", "4">>
DashName == <<"-", "n", "a", "m", "e">>
DashM == <<"-", "m">>
MacEq == <<"m", "a", "c", "=">>
VirtioNet == <<"v", "i", "r", "t", "i", "o", "-", "n", "e", "t">>
Digits == <<"0", "1", "2", "3", "4", "5", "6", "7", "8", "9">>

\* str(pid) for the PIDs of the model (one decimal digit)
PidStr(pid) == <<Digits[pid + 1]>>

\* needle in hay (Python's `in` on str)
IsSubstr(needle, hay) ==
    \E i \in 0..(Len(hay) - Len(needle)) :
        SubSeq(hay, i + 1, i + Len(needle)) = needle

\* " ".join(tokens)
RECURSIVE Join(_)
Join(tokens) ==
    IF tokens = <<>> THEN <<>>
    ELSE IF Len(tokens) = 1 THEN tokens[1]
    ELSE tokens[1] \o SP \o Join(Tail(tokens))

\* str.split(): the whitespace-separated tokens of a line
RECURSIVE SplitAcc(_, _, _)
SplitAcc(line, cur, acc) ==
    IF line = <<>> THEN (IF cur = <<>> THEN acc ELSE Append(acc, cur))
    ELSE IF Head(line) = " "
         THEN SplitAcc(Tail(line), <<>>, IF cur = <<>> THEN acc ELSE Append(acc, cur))
         ELSE SplitAcc(Tail(line), Append(cur, Head(line)), acc)

Split(line) == SplitAcc(line, <<>>, <<>>)

(***************************************************************************)
(* The host's process table.  A process is [pid, name, mac, term]: name is *)
(* the value of its -name argument, mac tells whether its command line     *)
(* carries a mac= fragment after its network device, term whether it was   *)
(* sent SIGTERM.                                                           *)
(***************************************************************************)
\* the argument vector a hypervisor process shows in the process table
ProcArgv(p) ==
    <<Binary, DashName, p.name, DashM, <<"1", "0", "2", "4">> >>
        \o (IF p.mac THEN <<VirtioNet, MacEq \o <<"a">> >> ELSE <<>>)

\* the command line of process p as the process listing prints it
CmdLine(p) == Join(ProcArgv(p))

\* one line of `pgrep -a qemu-system-x86_64`: "<pid> <command line>"
PgrepLine(p) == PidStr(p.pid) \o SP \o CmdLine(p)

MinPid(ps) == CHOOSE x \in {p.pid : p \in ps} : \A q \in ps : x <= q.pid

ProcOf(pid) == {p \in procs : p.pid = pid}

\* int(s) for a PID string
ParsePid(s) == CHOOSE pid \in 0..9 : PidStr(pid) = s

StartsWith(s, prefix) ==
    Len(s) >= Len(prefix) /\ SubSeq(s, 1, Len(prefix)) = prefix

(***************************************************************************)
(* qemu_vm.py: the process locator and observed state.                     *)
(***************************************************************************)
\* f"-name {name}" in line
LineMatches(name, line) == IsSubstr(DashName \o SP \o name, line)

\* every process record the model can hold
AllProcs == [pid : 1..9, name : Names, mac : BOOLEAN, term : BOOLEAN]

\* the locator's test and PID extraction, tabulated once per process record
MatchTable ==
    [n \in Names |-> [p \in AllProcs |-> LineMatches(n, PgrepLine(p))]]

PidTable == [p \in AllProcs |-> ParsePid(Split(PgrepLine(p))[1])]

\* _get_vm_status: <<status, pid>>, pid 0 standing for None.  listFails: the
\* listing tool could not be run.  pgrep exits 1 when no hypervisor process
\* exists at all, which check_rc=True turns into QemuVmError as well.
GetVmStatus(name, listFails) ==
    IF listFails \/ procs = {}
    THEN <<"absent", 0>>
    ELSE LET hits == {p \in procs : MatchTable[name][p]}
         IN  IF hits # {}
             THEN LET first == CHOOSE p \in hits : p.pid = MinPid(hits)
                  IN  <<"running", PidTable[first]>>
             ELSE IF image[name] THEN <<"stopped", 0>>
             ELSE <<"absent", 0>>

\* the outcomes the process listing can have in the current host
ListOutcomes == IF faults THEN {TRUE, FALSE} ELSE {FALSE}

(***************************************************************************)
(* qemu_vm.py: the address resolver.  What the resolver's read-only        *)
(* sources answer is an input e = [ga, ps, arp, lease]:                    *)
(*   ga    nosock | spawnfail | rc1 | badjson | nokey | ip                 *)
(*   ps    spawnfail | ok                                                  *)
(*   arp   spawnfail | norow | badrow | row                                *)
(*   lease nofile | nomatch | match                                        *)
(* The result is [raise, ip]: raise is "none", "QemuVmError" or            *)
(* "Exception"; ip is "none" (None) or the source that gave the address.   *)
(***************************************************************************)
ResolverEnvs ==
    [ga : {"nosock", "spawnfail", "rc1", "badjson", "nokey", "ip"},
     ps : {"spawnfail", "ok"},
     arp : {"spawnfail", "norow", "badrow", "row"},
     lease : {"nofile", "nomatch", "match"}]

Found(src) == [raise |-> "none", ip |-> src]
Raised(kind) == [raise |-> kind, ip |-> "none"]

\* a line of the process table carries a token starting with mac=
HasMacToken(line) ==
    \E k \in 1..Len(Split(line)) : StartsWith(Split(line)[k], MacEq)

\* method 2's scan of one line of `ps -ef`, tabulated per process record
MacTable ==
    [n \in Names |->
        [p \in AllProcs |-> LineMatches(n, CmdLine(p)) /\ HasMacToken(CmdLine(p))]]

\* method 2: some line with f"-name {name}" gives a MAC
MacFound(name) == \E p \in procs : MacTable[name][p]

\* method 3: the lease file
IpFromLeases(e) == IF e.lease = "match" THEN Found("lease") ELSE Found("none")

\* method 2: ps -ef, then arp -n; QemuVmError is not among the caught
\* exceptions (CalledProcessError, IndexError)
IpFromArp(mac, e) ==
    IF e.ps = "spawnfail" THEN Raised("QemuVmError")
    ELSE IF ~mac THEN IpFromLeases(e)
    ELSE IF e.arp = "spawnfail" THEN Raised("QemuVmError")
    ELSE IF e.arp = "row" THEN Found("arp")
    ELSE IpFromLeases(e)

\* _get_vm_ip: method 1 catches CalledProcessError, JSONDecodeError and
\* FileNotFoundError only
GetVmIp(mac, e) ==
    IF e.ga = "spawnfail" THEN Raised("QemuVmError")
    ELSE IF e.ga = "nokey" THEN Raised("Exception")
    ELSE IF e.ga = "ip" THEN Found("ga")
    ELSE IpFromArp(mac, e)

\* every result _get_vm_ip can have, by whether the scan gives a MAC
IpTable == [mac \in BOOLEAN |-> {GetVmIp(mac, e) : e \in ResolverEnvs}]

\* every result _get_vm_ip can have in the current host
IpOutcomes(name) == IpTable[MacFound(name)]

(***************************************************************************)
(* The reconciliation record of one caller.                                *)
(*   pc      position in ensure_state ("idle": the caller runs nothing)    *)
(*   ret     where the running _start_vm / _stop_vm returns to             *)
(*   p       module.params                                                 *)
(*   status0, pid0   current_status, current_pid                           *)
(*   changed, state, rpid, ip, info   self.result                          *)
(*   spid    _start_vm's pid;  fpid  final_pid                             *)
(*   i       polls done by _stop_vm;  elapsed  seconds waited for an IP    *)
(*   acts    the mutating external actions issued so far, in order, each   *)
(*           with whether the image existed then and the polls done        *)
(*   gone    a poll of _stop_vm found the VM not running                   *)
(*   sigfail a signal-sending command failed                               *)
(*   warned  module.warn was called                                        *)
(*   err     what made the call fail: config, launch, create, remove,      *)
(*           kill, localds, start_failed, no_ip, resolver, unexpected      *)
(*   temp, port, cmd   qemu.py: temp_files, result.ssh_port, result.cmd    *)
(*   iso     qemu.py: cloud_init_iso is a path, not None                   *)
(*   closed  qemu.py: __del__ has run                                      *)
(*   env, res   a _get_vm_ip call on its own: what its sources answered    *)
(*           and what it returned or raised                                *)
(*   bp, argv   a _build_vm_command call on its own: its parameters and    *)
(*           the argument vector it returned                               *)
(*   callNo, prev, image0   history: which call this is, the previous      *)
(*           call's outcome, the image's existence when the call began     *)
(***************************************************************************)
Callers == {1, 2}
Main == CHOOSE c \in Callers : \A d \in Callers : c <= d

PollLimit == 30
IpSleep == 5
MaxIpTimeout == 6
IpTimeouts == {0, MaxIpTimeout}
PollCosts == {0, 2}

NoPid == [k |-> "none", pid |-> 0, ip |-> "none"]
IntPid(pid) == [k |-> "int", pid |-> pid, ip |-> "none"]
TuplePid(pid, ip) == [k |-> "tuple", pid |-> pid, ip |-> ip]

NoPrev == [returned |-> FALSE, changed |-> FALSE, state |-> "absent",
           status0 |-> "absent", image0 |-> FALSE]

\* the parameters _build_vm_command reads, before any is given
NoBuild == [name |-> <<>>, memory_mb |-> 0, vcpus |-> 0, image |-> <<>>,
            network |-> "user", bridge_interface |-> <<>>, iso |-> FALSE,
            ssh_port |-> 0]

\* the resolver's sources when nothing answers
NoEnv == [ga |-> "nosock", ps |-> "ok", arp |-> "norow", lease |-> "nofile"]

\* QemuVM.__init__: a fresh result for call number n
NewCall(p, n, prev) ==
    [pc |-> "start", ret |-> "none", p |-> p,
     status0 |-> "absent", pid0 |-> 0,
     changed |-> FALSE, state |-> "absent", rpid |-> NoPid, ip |-> "none",
     info |-> "none", spid |-> 0, fpid |-> 0, i |-> 0, elapsed |-> 0,
     acts |-> <<>>, gone |-> FALSE, sigfail |-> FALSE, warned |-> FALSE,
     err |-> "none",
     temp |-> <<>>, port |-> 0, cmd |-> FALSE, iso |-> FALSE, closed |-> FALSE,
     callNo |-> n, prev |-> prev, image0 |-> FALSE,
     env |-> NoEnv, res |-> Found("none"), bp |-> NoBuild, argv |-> <<>>]

States == {"absent", "present", "started", "stopped"}

\* the parameter records qemu_vm.py's argument_spec lets through
VmParams ==
    {p \in [state : States, name : TargetNames, network : {"user", "bridge"},
            bridge : BOOLEAN, wait_for_ip : BOOLEAN, ip_timeout : IpTimeouts,
            fail_on_no_ip : BOOLEAN, cloud_init : {FALSE}, ssh_port : {0}] :
        /\ (p.network = "user" => ~p.bridge)
        /\ (~p.wait_for_ip => ~p.fail_on_no_ip /\ p.ip_timeout = MaxIpTimeout)
        /\ (p.ip_timeout = 0 => ~p.fail_on_no_ip)}

Idle == [NewCall(CHOOSE p \in VmParams : TRUE, 0, NoPrev) EXCEPT !.pc = "idle"]

InitProcs ==
    {[pid |-> 1, name |-> NameVm1, mac |-> TRUE, term |-> FALSE],
     [pid |-> 2, name |-> NameVm, mac |-> TRUE, term |-> FALSE],
     [pid |-> 3, name |-> NameDb, mac |-> FALSE, term |-> FALSE]}

InitHost ==
    /\ procs \in SUBSET InitProcs
    /\ nextPid = 4
    /\ faults \in BOOLEAN
    /\ files = {}

Init ==
    /\ InitHost
    /\ \E p \in {q \in VmParams : q.name = NameVm} :
        /\ ctl = [c \in Callers |-> IF c = Main THEN NewCall(p, 1, NoPrev) ELSE Idle]
        /\ image \in {f \in [Names -> BOOLEAN] : \A n \in Names \ {p.name} : ~f[n]}

(***************************************************************************)
(* qemu_vm.py: ensure_state and its helpers, one step per external call.   *)
(***************************************************************************)
Fail(s, msg) == [s EXCEPT !.pc = "failed", !.err = msg]

Logged(s, op) ==
    Append(s.acts, [op |-> op, img |-> image[s.p.name], i |-> s.i])

CallStart(s, ret) == [s EXCEPT !.pc = "sv_launch", !.ret = ret]

\* _stop_vm(pid): `if pid:` skips everything for None
CallStop(s, ret) ==
    IF s.pid0 # 0
    THEN [s EXCEPT !.pc = "st_term", !.ret = ret, !.i = 0]
    ELSE IF ret = "B_rm" THEN [s EXCEPT !.pc = "B_rm"]
    ELSE [s EXCEPT !.changed = TRUE, !.pc = "F"]

\* BranchB without the test `current_status != "absent"`
BranchBRemove(s) ==
    IF s.p.state = "absent"
    THEN IF s.status0 = "running" THEN CallStop(s, "B_rm")
         ELSE [s EXCEPT !.pc = "B_rm"]
    ELSE IF s.p.state \in {"present", "started"}
    THEN IF s.status0 = "absent" THEN [s EXCEPT !.pc = "B_create"]
         ELSE IF s.status0 = "stopped" /\ s.p.state = "started"
              THEN CallStart(s, "B_ret")
              ELSE [s EXCEPT !.pc = "F"]
    ELSE IF s.status0 = "running" THEN CallStop(s, "B_stopped")
         ELSE [s EXCEPT !.pc = "F"]

\* ensure_state, the second if/elif chain
BranchB(s) ==
    IF s.p.state = "absent"
    THEN IF s.status0 # "absent"
         THEN IF s.status0 = "running" THEN CallStop(s, "B_rm")
              ELSE [s EXCEPT !.pc = "B_rm"]
         ELSE [s EXCEPT !.pc = "F"]
    ELSE IF s.p.state \in {"present", "started"}
    THEN IF s.status0 = "absent" THEN [s EXCEPT !.pc = "B_create"]
         ELSE IF s.status0 = "stopped" /\ s.p.state = "started"
              THEN CallStart(s, "B_ret")
              ELSE [s EXCEPT !.pc = "F"]
    ELSE IF s.status0 = "running" THEN CallStop(s, "B_stopped")
         ELSE [s EXCEPT !.pc = "F"]

\* BranchA without the test of the observed state
BranchARestart(s) ==
    IF s.p.state = "started" THEN CallStart(s, "A_ret") ELSE BranchB(s)

\* ensure_state, the first if: desired started
BranchA(s) ==
    IF s.p.state = "started"
    THEN IF s.status0 # "running" THEN CallStart(s, "A_ret")
         ELSE IF s.p.wait_for_ip THEN [s EXCEPT !.pc = "A_ip"]
         ELSE BranchB(s)
    ELSE BranchB(s)

\* _start_vm returned (pid, ip) to its call site
SvReturn(s, ip) ==
    IF s.ret = "A_ret"
    THEN BranchB([s EXCEPT !.changed = TRUE, !.rpid = IntPid(s.spid), !.ip = ip,
                           !.spid = 0, !.elapsed = 0])
    ELSE [s EXCEPT !.rpid = TuplePid(s.spid, ip), !.changed = TRUE, !.pc = "F",
                   !.spid = 0, !.elapsed = 0]

\* _start_vm found no address
SvNoIp(s) ==
    IF s.p.fail_on_no_ip THEN Fail(s, "no_ip") ELSE SvReturn(s, "none")

\* _stop_vm returned to its call site
StReturn(s) ==
    IF s.ret = "B_rm" THEN [s EXCEPT !.pc = "B_rm"]
    ELSE [s EXCEPT !.changed = TRUE, !.pc = "F"]

\* whether a kill of pid can succeed: never for a PID that is gone
KillOutcomes(pid) ==
    IF ProcOf(pid) = {} THEN {FALSE}
    ELSE IF faults THEN {TRUE, FALSE} ELSE {TRUE}

\* StopPollNext with a graceful window of 3 polls
StopPollNextShort(s) ==
    IF s.i + 1 < 3 THEN [s EXCEPT !.i = s.i + 1]
    ELSE [s EXCEPT !.i = s.i + 1, !.pc = "st_kill"]

\* the loop of _stop_vm after a poll that found the VM running
StopPollNext(s) ==
    IF s.i + 1 < PollLimit THEN [s EXCEPT !.i = s.i + 1]
    ELSE [s EXCEPT !.i = s.i + 1, !.pc = "st_kill"]

Set(c, s) == ctl' = [ctl EXCEPT ![c] = s]

\* the message class of a failure of the resolver
IpError(r) == IF r.raise = "QemuVmError" THEN "resolver" ELSE "unexpected"

\* current_status, current_pid = self._get_vm_status()
Observe(c) ==
    LET s == ctl[c] IN
    /\ s.pc = "start"
    /\ \E lf \in ListOutcomes :
        LET st == GetVmStatus(s.p.name, lf) IN
        Set(c, BranchA([s EXCEPT !.status0 = st[1], !.pid0 = st[2],
                                 !.image0 = image[s.p.name]]))
    /\ UNCHANGED <<procs, image, nextPid, faults, files>>

\* VM already running but IP requested
AlreadyRunningIp(c) ==
    LET s == ctl[c] IN
    /\ s.pc = "A_ip"
    /\ \E r \in IpOutcomes(s.p.name) :
        IF r.raise # "none"
        THEN Set(c, Fail(s, IpError(r)))
        ELSE Set(c, BranchB([s EXCEPT !.ip = r.ip]))
    /\ UNCHANGED <<procs, image, nextPid, faults, files>>

\* the process a launch of caller's VM puts in the process table
Launched(s) == [pid |-> nextPid, name |-> s.p.name, mac |-> FALSE, term |-> FALSE]

\* _build_vm_command raises when network=bridge has no bridge_interface
BuildFails(s) == s.p.network = "bridge" /\ ~s.p.bridge

\* SvLaunch held back while another call for the same name has launched
SvLaunchExclusive(c) ==
    LET s == ctl[c] IN
    /\ s.pc = "sv_launch"
    /\ \A d \in Callers \ {c} :
        ctl[d].p.name = s.p.name => \A k \in 1..Len(ctl[d].acts) : ctl[d].acts[k].op # "launch"
    /\ IF BuildFails(s)
       THEN /\ Set(c, Fail(s, "config"))
            /\ UNCHANGED <<procs, nextPid>>
       ELSE \E accepted \in BOOLEAN :
            LET s1 == [s EXCEPT !.acts = Logged(s, "launch")] IN
            IF accepted
            THEN /\ nextPid <= MaxPid
                 /\ procs' = procs \cup {Launched(s)}
                 /\ nextPid' = nextPid + 1
                 /\ Set(c, [s1 EXCEPT !.pc = "sv_verify"])
            ELSE /\ Set(c, Fail(s1, "launch"))
                 /\ UNCHANGED <<procs, nextPid>>
    /\ UNCHANGED <<image, faults, files>>

\* _start_vm: cmd = self._build_vm_command(); self._run_command(cmd)
SvLaunch(c) ==
    LET s == ctl[c] IN
    /\ s.pc = "sv_launch"
    /\ IF BuildFails(s)
       THEN /\ Set(c, Fail(s, "config"))
            /\ UNCHANGED <<procs, nextPid>>
       ELSE \E accepted \in BOOLEAN :
            LET s1 == [s EXCEPT !.acts = Logged(s, "launch")] IN
            IF accepted
            THEN /\ nextPid <= MaxPid
                 /\ procs' = procs \cup {Launched(s)}
                 /\ nextPid' = nextPid + 1
                 /\ Set(c, [s1 EXCEPT !.pc = "sv_verify"])
            ELSE /\ Set(c, Fail(s1, "launch"))
                 /\ UNCHANGED <<procs, nextPid>>
    /\ UNCHANGED <<image, faults, files>>

\* _start_vm: verify VM started successfully
SvVerify(c) ==
    LET s == ctl[c] IN
    /\ s.pc = "sv_verify"
    /\ \E lf \in ListOutcomes :
        LET st == GetVmStatus(s.p.name, lf)
            s1 == [s EXCEPT !.spid = st[2], !.elapsed = 0]
        IN  IF st[1] # "running" THEN Set(c, Fail(s, "start_failed"))
            ELSE IF ~s.p.wait_for_ip THEN Set(c, SvReturn(s1, "none"))
            ELSE IF 0 < s.p.ip_timeout THEN Set(c, [s1 EXCEPT !.pc = "sv_wait"])
            ELSE Set(c, SvNoIp(s1))
    /\ UNCHANGED <<procs, image, nextPid, faults, files>>

\* SvWait giving up after the first poll
SvWaitOnce(c) ==
    LET s == ctl[c] IN
    /\ s.pc = "sv_wait"
    /\ \E r \in IpOutcomes(s.p.name), d \in PollCosts :
        IF r.raise # "none" THEN Set(c, Fail(s, IpError(r)))
        ELSE IF r.ip # "none" THEN Set(c, SvReturn(s, r.ip))
        ELSE Set(c, SvNoIp(s))
    /\ UNCHANGED <<procs, image, nextPid, faults, files>>

\* _wait_for_ip: one poll of the resolver, then time.sleep(5); d is the
\* time the poll itself took
SvWait(c) ==
    LET s == ctl[c] IN
    /\ s.pc = "sv_wait"
    /\ \E r \in IpOutcomes(s.p.name), d \in PollCosts :
        LET s1 == [s EXCEPT !.elapsed = s.elapsed + d + IpSleep] IN
        IF r.raise # "none" THEN Set(c, Fail(s, IpError(r)))
        ELSE IF r.ip # "none" THEN Set(c, SvReturn(s, r.ip))
        ELSE IF s1.elapsed < s.p.ip_timeout THEN Set(c, s1)
        ELSE Set(c, SvNoIp(s))
    /\ UNCHANGED <<procs, image, nextPid, faults, files>>

\* after _create_disk_image in ensure_state
AfterCreate(s) ==
    IF s.p.state = "started" THEN CallStart(s, "B_ret") ELSE [s EXCEPT !.pc = "F"]

\* self.result["changed"] = self._create_disk_image()
CreateDiskImage(c) ==
    LET s == ctl[c] IN
    /\ s.pc = "B_create"
    /\ IF ~image[s.p.name]
       THEN \E ok \in BOOLEAN :
            LET s1 == [s EXCEPT !.acts = Logged(s, "create")] IN
            IF ok
            THEN /\ image' = [image EXCEPT ![s.p.name] = TRUE]
                 /\ Set(c, AfterCreate([s1 EXCEPT !.changed = TRUE]))
            ELSE /\ Set(c, Fail(s1, "create"))
                 /\ UNCHANGED image
       ELSE /\ Set(c, AfterCreate([s EXCEPT !.changed = FALSE]))
            /\ UNCHANGED image
    /\ UNCHANGED <<procs, nextPid, faults, files>>

\* if os.path.exists(image_path): os.remove(image_path); changed = True
RemoveImage(c) ==
    LET s == ctl[c] IN
    /\ s.pc = "B_rm"
    /\ IF image[s.p.name]
       THEN \E ok \in (IF faults THEN {TRUE, FALSE} ELSE {TRUE}) :
            LET s1 == [s EXCEPT !.acts = Logged(s, "remove")] IN
            IF ok
            THEN /\ image' = [image EXCEPT ![s.p.name] = FALSE]
                 /\ Set(c, [s1 EXCEPT !.changed = TRUE, !.pc = "F"])
            ELSE /\ Set(c, Fail(s1, "remove"))
                 /\ UNCHANGED image
       ELSE /\ Set(c, [s EXCEPT !.changed = TRUE, !.pc = "F"])
            /\ UNCHANGED image
    /\ UNCHANGED <<procs, nextPid, faults, files>>

\* _stop_vm: kill -SIGTERM pid; a failure is caught and warned about
StTerm(c) ==
    LET s == ctl[c] IN
    /\ s.pc = "st_term"
    /\ \E ok \in KillOutcomes(s.pid0) :
        LET s1 == [s EXCEPT !.acts = Logged(s, "term")] IN
        IF ok
        THEN /\ procs' = {IF q.pid = s.pid0 THEN [q EXCEPT !.term = TRUE] ELSE q :
                             q \in procs}
             /\ Set(c, [s1 EXCEPT !.pc = "st_poll"])
        ELSE /\ Set(c, StReturn([s1 EXCEPT !.warned = TRUE, !.sigfail = TRUE]))
             /\ UNCHANGED procs
    /\ UNCHANGED <<image, nextPid, faults, files>>

\* StPoll starting the 30 polls over instead of escalating
StPollRestart(c) ==
    LET s == ctl[c] IN
    /\ s.pc = "st_poll"
    /\ \E lf \in ListOutcomes :
        LET st == GetVmStatus(s.p.name, lf) IN
        IF st[1] # "running" THEN Set(c, StReturn([s EXCEPT !.gone = TRUE]))
        ELSE Set(c, [s EXCEPT !.i = (s.i + 1) % PollLimit])
    /\ UNCHANGED <<procs, image, nextPid, faults, files>>

\* _stop_vm: one iteration of `for _ in range(30)`
StPoll(c) ==
    LET s == ctl[c] IN
    /\ s.pc = "st_poll"
    /\ \E lf \in ListOutcomes :
        LET st == GetVmStatus(s.p.name, lf) IN
        IF st[1] # "running" THEN Set(c, StReturn([s EXCEPT !.gone = TRUE]))
        ELSE Set(c, StopPollNext(s))
    /\ UNCHANGED <<procs, image, nextPid, faults, files>>

\* _stop_vm: kill -SIGKILL pid
StKill(c) ==
    LET s == ctl[c] IN
    /\ s.pc = "st_kill"
    /\ \E ok \in KillOutcomes(s.pid0) :
        LET s1 == [s EXCEPT !.acts = Logged(s, "kill")] IN
        IF ok
        THEN /\ procs' = procs \ ProcOf(s.pid0)
             /\ Set(c, StReturn(s1))
        ELSE /\ Set(c, StReturn([s1 EXCEPT !.warned = TRUE, !.sigfail = TRUE]))
             /\ UNCHANGED procs
    /\ UNCHANGED <<image, nextPid, faults, files>>

\* final_status, final_pid = self._get_vm_status()
FinalStatus(c) ==
    LET s == ctl[c] IN
    /\ s.pc = "F"
    /\ \E lf \in ListOutcomes :
        LET st == GetVmStatus(s.p.name, lf) IN
        Set(c, [s EXCEPT !.state = st[1], !.fpid = st[2], !.pc = "F_info"])
    /\ UNCHANGED <<procs, image, nextPid, faults, files>>

\* after vm_info: `if final_pid: result["pid"] = final_pid`, then whether
\* the address is still to be resolved
AfterInfo(s) ==
    LET s1 == IF s.fpid # 0 THEN [s EXCEPT !.rpid = IntPid(s.fpid)] ELSE s IN
    IF s1.state = "running" /\ s1.ip = "none"
    THEN [s1 EXCEPT !.pc = "F_ip"]
    ELSE [s1 EXCEPT !.pc = "done"]

\* self.result["vm_info"] = self._get_vm_info()
FinalInfo(c) ==
    LET s == ctl[c] IN
    /\ s.pc = "F_info"
    /\ IF ~image[s.p.name]
       THEN Set(c, AfterInfo([s EXCEPT !.info = "none"]))
       ELSE \E lf \in ListOutcomes :
            LET st == GetVmStatus(s.p.name, lf)
                s1 == [s EXCEPT !.info = st[1]]
            IN  IF st[1] # "running" THEN Set(c, AfterInfo(s1))
                ELSE \E r \in IpOutcomes(s.p.name) :
                     IF r.raise # "none" THEN Set(c, Fail(s, IpError(r)))
                     ELSE Set(c, AfterInfo(s1))
    /\ UNCHANGED <<procs, image, nextPid, faults, files>>

\* always try to get IP for running VMs
FinalIp(c) ==
    LET s == ctl[c] IN
    /\ s.pc = "F_ip"
    /\ \E r \in IpOutcomes(s.p.name) :
        IF r.raise # "none" THEN Set(c, Fail(s, IpError(r)))
        ELSE Set(c, [s EXCEPT !.ip = r.ip, !.pc = "done"])
    /\ UNCHANGED <<procs, image, nextPid, faults, files>>

\* what a finished call leaves for the history of the next one
Outcome(s) ==
    [returned |-> s.pc = "done", changed |-> s.changed, state |-> s.state,
     status0 |-> s.status0, image0 |-> s.image0]

\* main() is run again with the same parameters
NextCall(c) ==
    LET s == ctl[c] IN
    /\ s.pc \in {"done", "failed"}
    /\ s.callNo < MaxCalls
    /\ Set(c, NewCall(s.p, s.callNo + 1, Outcome(s)))
    /\ UNCHANGED <<procs, image, nextPid, faults, files>>

(***************************************************************************)
(* The host: a hypervisor process exits after a SIGTERM; on a faulty host  *)
(* the processes of the reconciled VM also exit at any time.  The other    *)
(* VMs' processes run on unless they are signalled.                        *)
(***************************************************************************)
EnvProcExit ==
    /\ \E q \in procs :
        /\ q.term \/ (faults /\ \E c \in Callers : ctl[c].pc # "idle" /\ ctl[c].p.name = q.name)
        /\ procs' = procs \ {q}
    /\ UNCHANGED <<image, nextPid, faults, files, ctl>>

VmStep(c) ==
    \/ Observe(c)
    \/ AlreadyRunningIp(c)
    \/ SvLaunch(c)
    \/ SvVerify(c)
    \/ SvWait(c)
    \/ CreateDiskImage(c)
    \/ RemoveImage(c)
    \/ StTerm(c)
    \/ StPoll(c)
    \/ StKill(c)
    \/ FinalStatus(c)
    \/ FinalInfo(c)
    \/ FinalIp(c)

Next == VmStep(Main) \/ EnvProcExit

Spec == Init /\ [][Next]_vars

(***************************************************************************)
(* The same parameters reconciled again and again with state=started, on a *)
(* host without faults: no process is signalled, so none exits.            *)
(***************************************************************************)
InitStarted == Init /\ ctl[Main].p.state = "started" /\ ~faults

StartedStep(c) ==
    \/ Observe(c)
    \/ AlreadyRunningIp(c)
    \/ SvLaunch(c)
    \/ SvVerify(c)
    \/ SvWait(c)
    \/ CreateDiskImage(c)
    \/ FinalStatus(c)
    \/ FinalInfo(c)
    \/ FinalIp(c)
    \/ NextCall(c)

NextStarted == StartedStep(Main)

SpecStarted == InitStarted /\ [][NextStarted]_vars

(***************************************************************************)
(* qemu.py: the process locator.                                           *)
(***************************************************************************)
\* the pattern f"qemu.*{name}" is found in line (pgrep -f searches the whole
\* command line)
PatternMatches(name, line) ==
    \E k \in 1..(Len(line) - Len(StrQemu) + 1) :
        /\ SubSeq(line, k, k + Len(StrQemu) - 1) = StrQemu
        /\ IsSubstr(name, SubSeq(line, k + Len(StrQemu), Len(line)))

PatternTable ==
    [n \in Names |-> [p \in AllProcs |-> PatternMatches(n, CmdLine(p))]]

\* _get_vm_pid: the PID, or 0 for None.  pgrep prints one PID per line and
\* exits 1 without a match; int() of several lines raises ValueError.
GetVmPid(name, listFails) ==
    LET hits == {p \in procs : PatternTable[name][p]} IN
    IF listFails \/ hits = {} THEN 0
    ELSE IF Cardinality(hits) = 1 THEN (CHOOSE p \in hits : TRUE).pid
    ELSE 0

(***************************************************************************)
(* qemu.py: the address resolver.  Every strategy catches QemuVmError; a   *)
(* missing field of the guest agent's answer (KeyError) is caught nowhere. *)
(***************************************************************************)
\* _get_vm_mac on one line of `ps -ef`: a part with virtio-net followed by a
\* part with mac=
MacAfterDevice(line) ==
    LET parts == Split(line) IN
    \E k \in 1..(Len(parts) - 1) :
        IsSubstr(VirtioNet, parts[k]) /\ IsSubstr(MacEq, parts[k + 1])

QMacTable ==
    [n \in Names |->
        [p \in AllProcs |-> LineMatches(n, CmdLine(p)) /\ MacAfterDevice(CmdLine(p))]]

\* _get_vm_mac: the first line with f"-name {name}" that has a MAC gives it
QMacFound(name) == \E p \in procs : QMacTable[name][p]

\* _get_vm_ip_from_arp
QIpFromArp(mac, e) ==
    IF e.ps = "spawnfail" \/ ~mac \/ e.arp # "row" THEN Found("none")
    ELSE Found("arp")

\* _get_vm_ip
QGetVmIp(mac, e) ==
    IF e.ga = "nokey" THEN Raised("Exception")
    ELSE IF e.ga = "ip" THEN Found("ga")
    ELSE IF QIpFromArp(mac, e).ip # "none" THEN QIpFromArp(mac, e)
    ELSE IpFromLeases(e)

QIpTable == [mac \in BOOLEAN |-> {QGetVmIp(mac, e) : e \in ResolverEnvs}]

QIpOutcomes(name) == QIpTable[QMacFound(name)]

(***************************************************************************)
(* qemu.py: ensure_state, one step per external call.  files holds the     *)
(* provisioning files: <<"dir", c, n>> and <<"user-data", c, n>> of call n *)
(* of caller c, and <<"iso", name>>.                                       *)
(***************************************************************************)
ExplicitPort == 2222
EphemeralPorts == {40001, 40002}

\* the parameter records qemu.py's ensure_state can be given.  bridge is
\* the truth value of bridge_interface: main's required_if rejects only an
\* omitted key, an empty or null bridge_interface reaches ensure_state
QemuParams ==
    {p \in [state : States, name : TargetNames, network : {"user", "bridge"},
            bridge : BOOLEAN, wait_for_ip : BOOLEAN, ip_timeout : {MaxIpTimeout},
            fail_on_no_ip : {FALSE}, cloud_init : BOOLEAN,
            ssh_port : {0, ExplicitPort}] :
        /\ (p.network = "user" => ~p.bridge /\ p.wait_for_ip)
        /\ (p.network = "bridge" => p.ssh_port = 0)}

InitQemu ==
    /\ InitHost
    /\ \E p \in {q \in QemuParams : q.name = NameVm} :
        /\ ctl = [c \in Callers |->
                    IF c = Main THEN [NewCall(p, 1, NoPrev) EXCEPT !.pc = "q_start"]
                    ELSE Idle]
        /\ image \in {f \in [Names -> BOOLEAN] : \A n \in Names \ {p.name} : ~f[n]}

\* ensure_state's branch on the desired state and current_pid
QBranch(s) ==
    IF s.p.state = "absent"
    THEN (IF s.pid0 # 0 THEN [s EXCEPT !.pc = "q_kill"] ELSE [s EXCEPT !.pc = "q_final"])
    ELSE IF s.p.state \in {"present", "started"}
    THEN (IF s.pid0 = 0 THEN [s EXCEPT !.pc = "q_cloud"] ELSE [s EXCEPT !.pc = "q_final"])
    ELSE (IF s.pid0 # 0 THEN [s EXCEPT !.pc = "q_kill"] ELSE [s EXCEPT !.pc = "q_final"])

\* current_pid = self._get_vm_pid()
QObserve(c) ==
    LET s == ctl[c] IN
    /\ s.pc = "q_start"
    /\ \E lf \in ListOutcomes :
        Set(c, QBranch([s EXCEPT !.pid0 = GetVmPid(s.p.name, lf),
                                 !.image0 = image[s.p.name]]))
    /\ UNCHANGED <<procs, image, nextPid, faults, files>>

\* self._run_command(["kill", str(current_pid)]); result.changed = True
QKill(c) ==
    LET s == ctl[c] IN
    /\ s.pc = "q_kill"
    /\ \E ok \in KillOutcomes(s.pid0) :
        LET s1 == [s EXCEPT !.acts = Logged(s, "term")] IN
        IF ok
        THEN /\ procs' = {IF q.pid = s.pid0 THEN [q EXCEPT !.term = TRUE] ELSE q :
                             q \in procs}
             /\ Set(c, [s1 EXCEPT !.changed = TRUE, !.pc = "q_final"])
        ELSE /\ Set(c, Fail([s1 EXCEPT !.sigfail = TRUE], "kill"))
             /\ UNCHANGED procs
    /\ UNCHANGED <<image, nextPid, faults, files>>

TempDir(c, s) == <<"dir", c, s.callNo>>
UserData(c, s) == <<"user-data", c, s.callNo>>
IsoPath(s) == <<"iso", s.p.name>>

\* _create_cloud_init_iso: temp dir, user-data, then cloud-localds
QCloudInit(c) ==
    LET s == ctl[c] IN
    /\ s.pc = "q_cloud"
    /\ IF ~s.p.cloud_init
       THEN /\ Set(c, [s EXCEPT !.pc = "q_launch"])
            /\ UNCHANGED files
       ELSE \E ok \in BOOLEAN :
            LET s1 == [s EXCEPT !.acts = Logged(s, "localds"),
                                !.temp = <<TempDir(c, s), IsoPath(s)>>]
            IN  IF ok
                THEN /\ files' = files \cup {TempDir(c, s), UserData(c, s), IsoPath(s)}
                     /\ Set(c, [s1 EXCEPT !.pc = "q_launch", !.iso = TRUE])
                ELSE /\ files' = files \cup {TempDir(c, s), UserData(c, s)}
                     /\ Set(c, Fail(s1, "localds"))
    /\ UNCHANGED <<procs, image, nextPid, faults>>

\* the host ports held by the hypervisors the runs have started
BoundPorts ==
    {ctl[c].port : c \in {d \in Callers : ctl[d].cmd /\ ctl[d].p.network = "user"}}

\* a port the allocator gives out stays out of the pool until it is launched
FindFreePortReserving ==
    EphemeralPorts \ (BoundPorts \cup {ctl[c].port : c \in Callers})

\* _find_free_port: s.bind(("", 0)) takes any port no socket is bound to;
\* the socket is closed on return, so only bound ports are left out
FindFreePort == EphemeralPorts \ BoundPorts

\* ssh_port = self.params.get("ssh_port") or self._find_free_port()
SshPorts(s) == IF s.p.ssh_port # 0 THEN {s.p.ssh_port} ELSE {s.port}

\* _build_vm_command has to call the allocator and has not done so
NeedsPort(s) == s.p.network = "user" /\ s.p.ssh_port = 0 /\ s.port = 0

\* _build_vm_command: self._find_free_port(), when no ssh_port is given
QFindPort(c) ==
    LET s == ctl[c] IN
    /\ s.pc = "q_launch"
    /\ NeedsPort(s)
    /\ \E port \in FindFreePort : Set(c, [s EXCEPT !.port = port])
    /\ UNCHANGED <<procs, image, nextPid, faults, files>>

\* where ensure_state goes after an accepted launch
AfterLaunch(s) ==
    IF s.p.network = "bridge" /\ s.p.wait_for_ip /\ 0 < s.p.ip_timeout
    THEN [s EXCEPT !.pc = "q_wait"]
    ELSE [s EXCEPT !.pc = "q_final"]

\* cmd = self._build_vm_command(cloud_init_iso); self._run_command(cmd).
\* A hypervisor whose forwarded port is held by another one does not start.
QLaunch(c) ==
    LET s == ctl[c] IN
    /\ s.pc = "q_launch"
    /\ ~NeedsPort(s)
    /\ IF BuildFails(s)
       THEN /\ Set(c, Fail(s, "config"))
            /\ UNCHANGED <<procs, nextPid>>
       ELSE \E accepted \in BOOLEAN,
               port \in (IF s.p.network = "user" THEN SshPorts(s) ELSE {0}) :
            LET s1 == [s EXCEPT !.acts = Logged(s, "launch"), !.port = port] IN
            IF accepted
            THEN /\ nextPid <= MaxPid
                 /\ port \notin BoundPorts
                 /\ procs' = procs \cup {Launched(s)}
                 /\ nextPid' = nextPid + 1
                 /\ Set(c, AfterLaunch([s1 EXCEPT !.cmd = TRUE, !.changed = TRUE]))
            ELSE /\ Set(c, Fail(s1, "launch"))
                 /\ UNCHANGED <<procs, nextPid>>
    /\ UNCHANGED <<image, faults, files>>

\* _wait_for_ip: one poll of the resolver, then time.sleep(5)
QWait(c) ==
    LET s == ctl[c] IN
    /\ s.pc = "q_wait"
    /\ \E r \in QIpOutcomes(s.p.name), d \in PollCosts :
        LET s1 == [s EXCEPT !.elapsed = s.elapsed + d + IpSleep] IN
        IF r.raise # "none" THEN Set(c, Fail(s, "unexpected"))
        ELSE IF r.ip # "none"
             THEN Set(c, [s EXCEPT !.ip = r.ip, !.elapsed = 0, !.pc = "q_final"])
        ELSE IF s1.elapsed < s.p.ip_timeout THEN Set(c, s1)
        ELSE Set(c, [s EXCEPT !.elapsed = 0, !.pc = "q_final"])
    /\ UNCHANGED <<procs, image, nextPid, faults, files>>

\* final_pid = self._get_vm_pid(); state, pid
QFinal(c) ==
    LET s == ctl[c] IN
    /\ s.pc = "q_final"
    /\ \E lf \in ListOutcomes :
        LET pid == GetVmPid(s.p.name, lf)
            s1 == [s EXCEPT !.fpid = pid,
                            !.state = IF pid # 0 THEN "running" ELSE "stopped",
                            !.rpid = IF pid # 0 THEN IntPid(pid) ELSE s.rpid]
        IN  IF pid # 0 /\ s.p.network = "bridge" /\ s.ip = "none"
            THEN Set(c, [s1 EXCEPT !.pc = "q_ip"])
            ELSE Set(c, [s1 EXCEPT !.pc = "done"])
    /\ UNCHANGED <<procs, image, nextPid, faults, files>>

\* always try to get IP for bridge mode when running
QFinalIp(c) ==
    LET s == ctl[c] IN
    /\ s.pc = "q_ip"
    /\ \E r \in QIpOutcomes(s.p.name) :
        IF r.raise # "none" THEN Set(c, Fail(s, "unexpected"))
        ELSE Set(c, [s EXCEPT !.ip = r.ip, !.pc = "done"])
    /\ UNCHANGED <<procs, image, nextPid, faults, files>>

\* Path(temp_file).unlink(missing_ok=True): a directory cannot be unlinked
Unlinked(f) == IF f[1] = "dir" THEN {} ELSE {f}

\* __del__: the object is dropped when the call has ended
QCleanup(c) ==
    LET s == ctl[c] IN
    /\ s.pc \in {"done", "failed"}
    /\ ~s.closed
    /\ files' = files \ UNION {Unlinked(s.temp[k]) : k \in 1..Len(s.temp)}
    /\ Set(c, [s EXCEPT !.closed = TRUE,
                        !.warned = s.warned \/ \E k \in 1..Len(s.temp) : Unlinked(s.temp[k]) = {}])
    /\ UNCHANGED <<procs, image, nextPid, faults>>

QemuStep(c) ==
    \/ QObserve(c)
    \/ QKill(c)
    \/ QCloudInit(c)
    \/ QFindPort(c)
    \/ QLaunch(c)
    \/ QWait(c)
    \/ QFinal(c)
    \/ QFinalIp(c)
    \/ QCleanup(c)

NextQemu == QemuStep(Main) \/ EnvProcExit

SpecQemu == InitQemu /\ [][NextQemu]_vars

(***************************************************************************)
(* qemu_vm.py: reconciliations that wait for an address, with timeouts of  *)
(* zero, one and two sleeps.  The loop of _wait_for_ip keeps running.      *)
(***************************************************************************)
WaitTimeouts == {0, MaxIpTimeout, 2 * MaxIpTimeout}

InitWait ==
    /\ InitHost
    /\ ~faults
    /\ \E p \in [state : {"started"}, name : {NameVm}, network : {"user"},
                  bridge : {FALSE}, wait_for_ip : {TRUE}, ip_timeout : WaitTimeouts,
                  fail_on_no_ip : BOOLEAN, cloud_init : {FALSE}, ssh_port : {0}] :
        /\ ctl = [c \in Callers |-> IF c = Main THEN NewCall(p, 1, NoPrev) ELSE Idle]
        /\ image \in {f \in [Names -> BOOLEAN] : \A n \in Names \ {p.name} : ~f[n]}

SpecWait == InitWait /\ [][NextStarted]_vars /\ WF_vars(SvWait(Main))

(***************************************************************************)
(* qemu_vm.py: two module runs at once on one host, for the same name or   *)
(* for the names vm and vm-1.  Nothing orders the steps of the two runs.   *)
(* The first run wants started or stopped, the second one started.         *)
(***************************************************************************)
ConcParams ==
    {p \in VmParams : /\ p.state \in {"started", "stopped"}
                      /\ p.network = "user" /\ ~p.wait_for_ip}

InitConc ==
    /\ InitHost
    /\ ~faults
    /\ \A q \in procs : q.name \in TargetNames
    /\ \E p \in {q \in ConcParams : q.name = NameVm},
          r \in {q \in ConcParams : q.state = "started"} :
        /\ ctl = [c \in Callers |->
                    IF c = Main THEN NewCall(p, 1, NoPrev) ELSE NewCall(r, 1, NoPrev)]
        /\ image \in {f \in [Names -> BOOLEAN] : ~f[NameDb]}

ConcStep(c) ==
    \/ Observe(c)
    \/ SvLaunch(c)
    \/ SvVerify(c)
    \/ CreateDiskImage(c)
    \/ StTerm(c)
    \/ StPoll(c)
    \/ StKill(c)
    \/ FinalStatus(c)
    \/ FinalInfo(c)
    \/ FinalIp(c)

NextConc == (\E c \in Callers : ConcStep(c)) \/ EnvProcExit

SpecConc == InitConc /\ [][NextConc]_vars

(***************************************************************************)
(* qemu_vm.py: two module runs at once for the same name, both with        *)
(* desired absent.                                                         *)
(***************************************************************************)
InitAbsent ==
    /\ InitHost
    /\ ~faults
    /\ \E p \in {q \in VmParams : /\ q.state = "absent" /\ q.name = NameVm
                                   /\ q.network = "user" /\ ~q.wait_for_ip} :
        ctl = [c \in Callers |-> NewCall(p, 1, NoPrev)]
    /\ image \in {f \in [Names -> BOOLEAN] : \A n \in Names \ {NameVm} : ~f[n]}

AbsentStep(c) ==
    \/ Observe(c)
    \/ RemoveImage(c)
    \/ StTerm(c)
    \/ StPoll(c)
    \/ StKill(c)
    \/ FinalStatus(c)
    \/ FinalInfo(c)
    \/ FinalIp(c)

NextAbsent == (\E c \in Callers : AbsentStep(c)) \/ EnvProcExit

SpecAbsent == InitAbsent /\ [][NextAbsent]_vars

(***************************************************************************)
(* _build_vm_command called on its own, in either program.  Arguments are  *)
(* strings (sequences of characters), the vector is a sequence of them.    *)
(***************************************************************************)
\* str(n) for a natural number
RECURSIVE ToStr(_)
ToStr(n) == IF n < 10 THEN <<Digits[n + 1]>> ELSE ToStr(n \div 10) \o <<Digits[(n % 10) + 1]>>

PathPlain == <<"/", "i", "/", "a", ".", "q">>
PathComma == <<"/", "i", "/", "a", ",", "b", ".", "q">>
Br0 == <<"b", "r", "0">>
IsoFile == <<"/", "i", "/", "v", "m", ".", "i", "s", "o">>

BuildParams ==
    {b \in [name : TargetNames, memory_mb : {512, 1024}, vcpus : {1, 2},
            image : {PathPlain, PathComma}, network : {"user", "bridge"},
            bridge_interface : {<<>>, Br0}, iso : BOOLEAN,
            ssh_port : {0, ExplicitPort}] :
        /\ (b.network = "user" => b.bridge_interface = <<>>)
        /\ (b.network = "bridge" => b.ssh_port = 0)}

DashSmp == <<"-", "s", "m", "p">>
DashDrive == <<"-", "d", "r", "i", "v", "e">>
FileEq == <<"f", "i", "l", "e", "=">>
DashDaemonize == <<"-", "d", "a", "e", "m", "o", "n", "i", "z", "e">>
DashDisplay == <<"-", "d", "i", "s", "p", "l", "a", "y">>
DashNetdev == <<"-", "n", "e", "t", "d", "e", "v">>
DashNet == <<"-", "n", "e", "t">>
DashDevice == <<"-", "d", "e", "v", "i", "c", "e">>
DashKvm == <<"-", "e", "n", "a", "b", "l", "e", "-", "k", "v", "m">>
DashCpu == <<"-", "c", "p", "u">>

\* qemu_vm.py: the base command, then the network stanza
VmArgv(b) ==
    <<Binary, DashName, b.name, DashM, ToStr(b.memory_mb),
      DashSmp, ToStr(b.vcpus),
      DashDrive, FileEq \o b.image \o <<",", "f", "o", "r", "m", "a", "t", "=", "q", "c", "o", "w", "2">>,
      DashDaemonize, DashDisplay, <<"n", "o", "n", "e">>>>
    \o (IF b.network = "user"
        THEN <<DashNet, <<"n", "i", "c">>, DashNet, <<"u", "s", "e", "r">>>>
        ELSE <<DashNet, <<"n", "i", "c">>, DashNet, <<"b", "r", "i", "d", "g", "e", ",", "b", "r", "=">> \o b.bridge_interface>>)

\* qemu.py: base command, optional cloud-init drive, network stanza, flags
QemuArgv(b, port) ==
    <<Binary, DashName, b.name, DashM, ToStr(b.memory_mb),
      DashSmp, ToStr(b.vcpus),
      DashDrive, FileEq \o b.image \o <<",", "f", "o", "r", "m", "a", "t", "=", "q", "c", "o", "w", "2", ",", "s", "n", "a", "p", "s", "h", "o", "t", "=", "o", "n">>>>
    \o (IF b.iso
        THEN <<DashDrive, FileEq \o IsoFile \o <<",", "f", "o", "r", "m", "a", "t", "=", "r", "a", "w", ",", "m", "e", "d", "i", "a", "=", "c", "d", "r", "o", "m">>>>
        ELSE <<>>)
    \o (IF b.network = "user"
        THEN <<DashNetdev, <<"u", "s", "e", "r", ",", "i", "d", "=", "n", "e", "t", "0", ",", "h", "o", "s", "t", "f", "w", "d", "=", "t", "c", "p", ":", ":">> \o ToStr(port) \o <<"-", ":", "2", "2">>,
               DashDevice, <<"v", "i", "r", "t", "i", "o", "-", "n", "e", "t", ",", "n", "e", "t", "d", "e", "v", "=", "n", "e", "t", "0">>>>
        ELSE <<DashNetdev, <<"b", "r", "i", "d", "g", "e", ",", "i", "d", "=", "n", "e", "t", "0", ",", "b", "r", "=">> \o b.bridge_interface,
               DashDevice, <<"v", "i", "r", "t", "i", "o", "-", "n", "e", "t", ",", "n", "e", "t", "d", "e", "v", "=", "n", "e", "t", "0">>>>)
    \o <<DashKvm, DashDisplay, <<"n", "o", "n", "e">>, DashDaemonize, DashCpu, <<"h", "o", "s", "t">>>>

InitBuild ==
    /\ procs = {}
    /\ image = [n \in Names |-> FALSE]
    /\ nextPid = 4
    /\ faults = FALSE
    /\ files = {}
    /\ \E b \in BuildParams :
        ctl = [c \in Callers |->
                IF c = Main
                THEN [NewCall(CHOOSE p \in VmParams : TRUE, 1, NoPrev)
                        EXCEPT !.pc = "b_start", !.bp = b]
                ELSE Idle]

\* qemu_vm.py: cmd = self._build_vm_command()
BuildVm(c) ==
    LET s == ctl[c] IN
    /\ s.pc = "b_start"
    /\ IF s.bp.network = "bridge" /\ s.bp.bridge_interface = <<>>
       THEN Set(c, Fail(s, "config"))
       ELSE Set(c, [s EXCEPT !.argv = VmArgv(s.bp), !.pc = "b_vm"])
    /\ UNCHANGED <<procs, image, nextPid, faults, files>>

\* qemu.py: cmd = self._build_vm_command(cloud_init_iso)
BuildQemu(c) ==
    LET s == ctl[c] IN
    /\ s.pc = "b_start"
    /\ IF s.bp.network = "bridge" /\ s.bp.bridge_interface = <<>>
       THEN Set(c, Fail(s, "config"))
       ELSE \E port \in (IF s.bp.ssh_port # 0 THEN {s.bp.ssh_port} ELSE FindFreePort) :
            Set(c, [s EXCEPT !.argv = QemuArgv(s.bp, port), !.pc = "b_qemu",
                             !.port = IF s.bp.network = "user" THEN port ELSE 0])
    /\ UNCHANGED <<procs, image, nextPid, faults, files>>

NextBuild == BuildVm(Main) \/ BuildQemu(Main)

SpecBuild == InitBuild /\ [][NextBuild]_vars

(***************************************************************************)
(* _get_vm_ip called on its own, once per behaviour, in either program.    *)
(***************************************************************************)
InitResolver ==
    /\ InitHost
    /\ \E p \in {q \in VmParams : q.name = NameVm /\ q.state = "started"} :
        ctl = [c \in Callers |->
                IF c = Main THEN [NewCall(p, 1, NoPrev) EXCEPT !.pc = "r_start"]
                ELSE Idle]
    /\ image = [n \in Names |-> FALSE]

\* qemu_vm.py: self._get_vm_ip()
ResolveVm(c) ==
    LET s == ctl[c] IN
    /\ s.pc = "r_start"
    /\ \E e \in ResolverEnvs :
        Set(c, [s EXCEPT !.env = e, !.res = GetVmIp(MacFound(s.p.name), e),
                         !.pc = "r_vm"])
    /\ UNCHANGED <<procs, image, nextPid, faults, files>>

\* qemu.py: self._get_vm_ip()
ResolveQemu(c) ==
    LET s == ctl[c] IN
    /\ s.pc = "r_start"
    /\ \E e \in ResolverEnvs :
        Set(c, [s EXCEPT !.env = e, !.res = QGetVmIp(QMacFound(s.p.name), e),
                         !.pc = "r_qemu"])
    /\ UNCHANGED <<procs, image, nextPid, faults, files>>

NextResolver == ResolveVm(Main) \/ ResolveQemu(Main)

SpecResolver == InitResolver /\ [][NextResolver]_vars

(***************************************************************************)
(* Properties.                                                             *)
(***************************************************************************)
Ops(acts, op) == {k \in 1..Len(acts) : acts[k].op = op}
Finished(s) == s.pc \in {"done", "failed"}

\* the -name argument of process p is exactly name (token equality)
ExactName(name, p) ==
    LET toks == Split(CmdLine(p)) IN
    \E k \in 1..(Len(toks) - 1) : toks[k] = DashName /\ toks[k + 1] = name

\* C1: desired started on a VM observed absent (no image): every launch is
\* issued with the image in place, and on a host without faults the call
\* ends with state running and changed=true.
C1_ProvisionBeforeLaunch ==
    LET s == ctl[Main] IN
    (s.pc # "start" /\ s.p.state = "started" /\ s.status0 = "absent" /\ ~s.image0)
        => /\ \A k \in Ops(s.acts, "launch") : s.acts[k].img
           /\ (s.pc = "done" /\ ~faults => s.state = "running" /\ s.changed)

\* C3: on a host without faults, a VM observed absent (no image) reconciled
\* twice with desired started: the first result has changed=true, the second
\* changed=false, both report running, and the second call issues no action.
C3_Idempotent ==
    LET s == ctl[Main] IN
    (s.callNo = 2 /\ s.prev.returned /\ s.prev.status0 = "absent" /\ ~s.prev.image0)
        => /\ s.prev.changed /\ s.prev.state = "running"
           /\ s.acts = <<>>
           /\ (s.pc = "done" => ~s.changed /\ s.state = "running")

C3_Witness ==
    LET s == ctl[Main] IN
    /\ s.callNo = 2 /\ s.pc = "done" /\ s.prev.returned
    /\ s.prev.status0 = "absent" /\ ~s.prev.image0
    /\ s.prev.changed /\ ~s.changed /\ s.state = "running"

\* C4: a reconciliation with desired absent that returned a result leaves no
\* image file, and a VM that was observed running was sent the termination
\* signal before the image was removed.
C4_AbsentRemovesImage ==
    LET s == ctl[Main] IN
    (s.p.state = "absent" /\ s.pc = "done")
        => /\ ~image[s.p.name]
           /\ (s.status0 = "running" =>
                \A r \in Ops(s.acts, "remove") :
                    \E k \in Ops(s.acts, "term") : k < r)

\* C5: an observation made while the image exists and no process matches the
\* VM reports stopped, also when the process listing fails.
C5_ImageWithoutProcessIsStopped ==
    [][LET s == ctl[Main] IN
       (s.pc = "start" /\ ctl'[Main].pc # "start"
            /\ image[s.p.name] /\ ~\E q \in procs : MatchTable[s.p.name][q])
         => ctl'[Main].status0 = "stopped"]_vars

\* C6: an observation reports running only with the PID of a process whose
\* -name argument is exactly the VM's name.
C6_ExactNameMatch ==
    [][LET s == ctl[Main] IN
       (s.pc = "start" /\ ctl'[Main].pc # "start" /\ ctl'[Main].status0 = "running")
         => \E q \in procs : q.pid = ctl'[Main].pid0 /\ ExactName(s.p.name, q)]_vars

\* C7: in one reconciliation the forced-kill signal is issued at most once,
\* after the termination signal, only when 30 polls found the VM running,
\* and never when a poll found it gone.
C7_StopEscalation ==
    LET s == ctl[Main] IN
    /\ Cardinality(Ops(s.acts, "kill")) <= 1
    /\ \A k \in Ops(s.acts, "kill") :
        /\ s.acts[k].i = 30
        /\ ~s.gone
        /\ \E j \in Ops(s.acts, "term") : j < k

C7_Witness ==
    LET s == ctl[Main] IN
    /\ Ops(s.acts, "kill") # {}
    /\ s.pc = "done"

\* C10: desired present or started on a VM observed absent: when the call
\* has ended (result or hard error), the disk-creation tool was run once if
\* the image did not exist when the call began, and not at all if it did.
C10_CreateIffMissing ==
    LET s == ctl[Main] IN
    (s.p.state \in {"present", "started"} /\ s.status0 = "absent" /\ Finished(s))
        => Cardinality(Ops(s.acts, "create")) = (IF s.image0 THEN 0 ELSE 1)

\* C2: a reconciliation with desired present issues no launch command and
\* reports none.
C2_PresentNeverLaunches ==
    LET s == ctl[Main] IN
    s.p.state = "present"
        => /\ Ops(s.acts, "launch") = {}
           /\ (s.cmd = FALSE)

\* C8: a signal-sending command that fails is warned about and never is what
\* makes the reconciliation fail.
C8_SignalFailureIsWarning ==
    LET s == ctl[Main] IN
    s.sigfail => s.warned /\ s.err # "kill"

\* C9: when the configuration error for a bridge without interface is
\* raised, no external tool has been run and no provisioning file exists.
C9_ConfigErrorBeforeAnyCommand ==
    LET s == ctl[Main] IN
    s.err = "config" => s.acts = <<>> /\ files = {}

\* the observed state already is the desired one
Satisfied(s) ==
    \/ s.p.state = "absent" /\ s.status0 = "absent"
    \/ s.p.state = "started" /\ s.status0 = "running"
    \/ s.p.state = "stopped" /\ s.status0 \in {"stopped", "absent"}

\* C11: a reconciliation whose observed state already is the desired state
\* issues no create, launch, signal or remove, leaves the image as it was
\* and reports changed=false.
C11_SatisfiedIsNoOp ==
    LET s == ctl[Main] IN
    (s.pc # "start" /\ Satisfied(s))
        => /\ s.acts = <<>>
           /\ ~s.changed
           /\ image[s.p.name] = s.image0

C11_Witness ==
    LET s == ctl[Main] IN
    /\ s.pc = "done" /\ s.p.state = "started" /\ s.status0 = "running"
    /\ s.p.wait_for_ip /\ ~s.changed /\ s.state = "running"

\* C12: a call of the resolver never raises, whatever its sources answer.
C12_ResolverNeverRaises ==
    LET s == ctl[Main] IN
    s.pc \in {"r_vm", "r_qemu"} => s.res.raise = "none"

\* the address the fallback order gives: the guest agent's, else the ARP
\* row's when the process table gives a MAC, else the lease file's
Expected(mac, e) ==
    IF e.ga = "ip" THEN "ga"
    ELSE IF e.ps = "ok" /\ mac /\ e.arp = "row" THEN "arp"
    ELSE IF e.lease = "match" THEN "lease"
    ELSE "none"

\* C13: the resolver returns the first address in the order guest agent,
\* ARP table, lease file, and nothing when none of them has one.
C13_FallbackOrder ==
    LET s == ctl[Main] IN
    /\ s.pc = "r_vm" => s.res.ip = Expected(MacFound(s.p.name), s.env)
    /\ s.pc = "r_qemu" => s.res.ip = Expected(QMacFound(s.p.name), s.env)

\* the address _wait_for_ip handed to _start_vm's caller
WaitResult(s, after) == IF s.ret = "A_ret" THEN after.ip ELSE after.rpid.ip

\* C14: _wait_for_ip polls only while the elapsed time is below the
\* timeout, sleeps 5 seconds after a poll without address, returns nothing
\* only when the timeout is reached, and always comes to an end.
C14_WaitForIp ==
    /\ [](ctl[Main].pc = "sv_wait" => ctl[Main].elapsed < ctl[Main].p.ip_timeout)
    /\ [][(ctl[Main].pc = "sv_wait" /\ ctl'[Main].pc = "sv_wait")
            => ctl'[Main].elapsed >= ctl[Main].elapsed + 5]_vars
    /\ [][(ctl[Main].pc = "sv_wait" /\ ctl'[Main].pc \notin {"sv_wait", "failed"}
             /\ WaitResult(ctl[Main], ctl'[Main]) = "none")
            => \E d \in PollCosts :
                ctl[Main].elapsed + d + 5 >= ctl[Main].p.ip_timeout]_vars
    /\ (ctl[Main].pc = "sv_wait") ~> (ctl[Main].pc # "sv_wait")

C14_Witness ==
    LET s == ctl[Main] IN
    /\ s.pc = "sv_wait" /\ s.elapsed >= 10 /\ s.p.ip_timeout = 2 * MaxIpTimeout

\* C15: when a call that packaged provisioning data has ended and its
\* cleanup has run, its temporary directory and the user-data document in
\* it are gone.
C15_TempFilesRemoved ==
    LET s == ctl[Main] IN
    (s.closed /\ s.temp # <<>>)
        => TempDir(Main, s) \notin files /\ UserData(Main, s) \notin files

\* C16: after the cleanup of the call that launched the VM with a
\* provisioning volume, the volume file is on disk as long as the launched
\* process runs.
C16_VolumeLeftOnDisk ==
    LET s == ctl[Main] IN
    (s.closed /\ s.iso /\ s.cmd /\ (\E q \in procs : q.pid >= 4 /\ q.name = s.p.name))
        => IsoPath(s) \in files

\* C17: in a returned result pid is set exactly when the state is running,
\* and is then the PID of the final scan.
C17_PidIffRunning ==
    LET s == ctl[Main] IN
    s.pc = "done"
        => /\ (s.rpid.k # "none") <=> (s.state = "running")
           /\ (s.state = "running" => s.rpid = IntPid(s.fpid))

\* C18: with network_mode=user every returned result of qemu.py has
\* ssh_port.
C18_UserModeHasSshPort ==
    LET s == ctl[Main] IN
    (s.pc = "done" /\ s.p.network = "user") => s.port # 0

\* C19: of two concurrent reconciliations for different names, neither takes
\* a process of the other's VM for its own when it observes, nor signals a
\* process of the other's VM.
C19_DifferentNamesIndependent ==
    [][\A c \in Callers : \A d \in Callers \ {c} :
        (ctl[c].p.name # ctl[d].p.name /\ ctl'[c] # ctl[c])
          => /\ (ctl[c].pc = "start" /\ ctl'[c].status0 = "running")
                  => \A q \in ProcOf(ctl'[c].pid0) : ~ExactName(ctl[d].p.name, q)
             /\ ctl[c].pc \in {"st_term", "st_kill"}
                  => \A q \in ProcOf(ctl[c].pid0) : ~ExactName(ctl[d].p.name, q)]_vars

\* C20: no reconciliation is held back by another one for the same name: a
\* call about to launch can launch whatever the other call has done, and
\* every call for desired started that observed the VM not running issues
\* the launch command.
C20_NoMutualExclusion ==
    \A c \in Callers :
        LET s == ctl[c] IN
        /\ s.pc = "sv_launch" => ENABLED SvLaunch(c)
        /\ (s.p.state = "started" /\ s.status0 # "running"
                /\ s.pc \notin {"start", "sv_launch"})
             => Ops(s.acts, "launch") # {}

\* two launches issued for one name, by two calls that both observed the VM
\* as not running
C20_Witness ==
    /\ \A c \in Callers :
        /\ ctl[c].p.name = NameVm /\ ctl[c].p.state = "started"
        /\ ctl[c].status0 # "running"
        /\ Ops(ctl[c].acts, "launch") # {}
    /\ Cardinality({q \in procs : q.pid >= 4 /\ q.name = NameVm}) = 2

\* C23: one ensure_state call issues the hypervisor launch command at most
\* once.
C23_AtMostOneLaunch ==
    Cardinality(Ops(ctl[Main].acts, "launch")) <= 1

\* C24: when the process listing works and more than one process matches
\* the VM, the observation of qemu.py gives the PID of the first match.
C24_FirstOfSeveralMatches ==
    [][LET s == ctl[Main]
           hits == {q \in procs : PatternTable[s.p.name][q]}
       IN  (s.pc = "q_start" /\ ctl'[Main].pc # "q_start" /\ ~faults
                /\ Cardinality(hits) >= 2)
             => ctl'[Main].pid0 = MinPid(hits)]_vars

\* the call attempted a disk creation, a launch, a signal or a removal
Mutated(s) ==
    \E k \in 1..Len(s.acts) :
        s.acts[k].op \in {"create", "launch", "term", "kill", "remove"}

\* C26: in a returned result changed is true exactly when the call attempted
\* a mutating external action.
C26_ChangedIffMutated ==
    \A c \in Callers :
        ctl[c].pc = "done" => (ctl[c].changed <=> Mutated(ctl[c]))

\* C25: a reconciliation makes at most 30 polls of the graceful stop and no
\* poll for an address at or after the deadline, and it cannot go on taking
\* steps for ever: a run that keeps stepping (each external command
\* returns) reaches its result or its hard error, whatever the host does.
C25_Terminates ==
    /\ [](ctl[Main].i <= 30)
    /\ [](ctl[Main].pc = "sv_wait" => ctl[Main].elapsed < ctl[Main].p.ip_timeout)
    /\ ([]<><<ctl'[Main] # ctl[Main]>>_vars => <>(ctl[Main].pc \in {"done", "failed"}))

C25_Witness ==
    LET s == ctl[Main] IN
    /\ s.pc = "done" /\ s.i = 30 /\ Ops(s.acts, "kill") # {}
    /\ s.p.state = "stopped"

\* reading an argument vector back: the value after a flag, int(), and the
\* file= field of a drive argument (its text up to the first comma)
FirstPos(argv, tok) ==
    CHOOSE k \in 1..Len(argv) : argv[k] = tok /\ \A j \in 1..(k - 1) : argv[j] # tok

ValueAfter(argv, flag) == argv[FirstPos(argv, flag) + 1]

RECURSIVE ToInt(_)
ToInt(s) ==
    IF s = <<>> THEN 0
    ELSE ToInt(SubSeq(s, 1, Len(s) - 1)) * 10
            + (CHOOSE d \in 0..9 : Digits[d + 1] = s[Len(s)])

FileField(arg) ==
    LET body == SubSeq(arg, Len(FileEq) + 1, Len(arg))
        stop == CHOOSE k \in 1..(Len(body) + 1) :
                    /\ k = Len(body) + 1 \/ body[k] = ","
                    /\ \A j \in 1..(k - 1) : body[j] # ","
    IN  SubSeq(body, 1, stop - 1)

RoundTrip(argv, b) ==
    /\ ValueAfter(argv, DashName) = b.name
    /\ ToInt(ValueAfter(argv, DashM)) = b.memory_mb
    /\ ToInt(ValueAfter(argv, DashSmp)) = b.vcpus
    /\ FileField(ValueAfter(argv, DashDrive)) = b.image

\* binary, -name, -m, -smp, drives, network stanza, background and
\* headless flags, in this order
Ordered(argv) ==
    LET At(toks) == {k \in 1..Len(argv) : argv[k] \in toks}
        drives == At({DashDrive})
        nets == At({DashNet, DashNetdev, DashDevice})
        flags == At({DashDaemonize, DashDisplay, DashKvm, DashCpu})
    IN  /\ argv[1] = Binary /\ argv[2] = DashName /\ argv[4] = DashM
        /\ argv[6] = DashSmp /\ argv[8] = DashDrive
        /\ \A d \in drives : \A n \in nets : d < n
        /\ \A n \in nets : \A f \in flags : n < f

\* C22: the argument vector _build_vm_command returns reads back to the
\* name, memory size, vCPU count and image path it was built from, and is
\* ordered binary, -name, -m, -smp, drives, network stanza, flags.
C22_BuildRoundTrip ==
    LET s == ctl[Main] IN
    s.pc \in {"b_vm", "b_qemu"} => RoundTrip(s.argv, s.bp) /\ Ordered(s.argv)

(***************************************************************************)
(* qemu.py: two runs for desired state started in user mode without an     *)
(* ssh_port, on a host with no hypervisor running.                         *)
(***************************************************************************)
PortParams ==
    {p \in QemuParams : /\ p.state = "started" /\ p.network = "user"
                        /\ p.ssh_port = 0 /\ ~p.cloud_init}

InitPort ==
    /\ procs = {}
    /\ nextPid = 4
    /\ faults = FALSE
    /\ files = {}
    /\ image = [n \in Names |-> n \in TargetNames]
    /\ \E p \in {q \in PortParams : q.name = NameVm}, r \in PortParams :
        ctl = [c \in Callers |->
                [NewCall(IF c = Main THEN p ELSE r, 1, NoPrev) EXCEPT !.pc = "q_start"]]

PortStep(c) ==
    \/ QObserve(c)
    \/ QCloudInit(c)
    \/ QFindPort(c)
    \/ QLaunch(c)
    \/ QFinal(c)
    \/ QCleanup(c)

NextPort == \E c \in Callers : PortStep(c)

SpecPort == InitPort /\ [][NextPort]_vars

\* a launch plan that carries an allocated port and has not been launched
Pending(c) ==
    LET s == ctl[c] IN
    s.pc = "q_launch" /\ s.p.network = "user" /\ s.p.ssh_port = 0 /\ s.port # 0

\* C21: the port _find_free_port returned is not reserved: as long as no
\* hypervisor has bound it, the allocator can return the port of a plan
\* that waits for its launch to any other call.
C21_PortNotReserved ==
    \A c \in Callers :
        (Pending(c) /\ ctl[c].port \notin BoundPorts) => ctl[c].port \in FindFreePort

\* two launch plans carry the same forwarded port before either is launched
C21_Witness ==
    \E c, d \in Callers :
        c # d /\ Pending(c) /\ Pending(d) /\ ctl[c].port = ctl[d].port

\* a hypervisor holds the port of a plan that has not been launched yet
C21_HeldByOther == \E c \in Callers : Pending(c) /\ ctl[c].port \in BoundPorts
====
